---- MODULE Spec2Model ----
(***************************************************************************)
(* clinic-express: the archive extraction engine (decompressArchive) and   *)
(* the LAB record parser (parseLabFile) of src/src/utils/labFileParser.ts. *)
(*                                                                         *)
(* Texts are sequences of one-character strings; a JavaScript value that   *)
(* is not a string (undefined, null) is a one-element sequence holding a   *)
(* marker that is no character, so that every field value is comparable.   *)
(***************************************************************************)
EXTENDS Integers, Sequences, FiniteSets, TLC

(***************************************************************************)
(* Bounds of the model.                                                    *)
(***************************************************************************)
MaxPasswords == 3
MaxMembers == 2
MaxLines == 3
MaxReplayLines == 2
MaxUploadMembers == 2
MaxRequests == 2

(***************************************************************************)
(* Generic helpers.                                                        *)
(***************************************************************************)
Range(s) == {s[i] : i \in 1..Len(s)}

SeqsUpTo(S, n) == UNION {[1..k -> S] : k \in 0..n}

IsPrefix(s, t) == Len(s) <= Len(t) /\ \A i \in 1..Len(s) : s[i] = t[i]

UNDEFINED == <<"#undefined">>
NULL == <<"#null">>

(***************************************************************************)
(* decompressArchive: inputs.                                              *)
(*                                                                         *)
(* A buffer either is no archive at all (Open.buffer rejects) or holds a   *)
(* directory of members.  A member is a directory entry or a file; a file  *)
(* is stored plain ("open": readable whatever password is passed), is      *)
(* encrypted under one password, or is "corrupt" (no password reads it).   *)
(***************************************************************************)
PasswordValues == {"", "a", "b"}

Extensions == {".zip", ".ZIP", ".rar"}

Locks == {"open", "a", "b", "corrupt"}

MemberPath(i) == <<"m", i>>

MemberData(i) == <<"bytes", i>>

MemberAt(i, type, lock) ==
  [path |-> MemberPath(i), data |-> MemberData(i), type |-> type, lock |-> lock]

MemberShapes ==
  {[type |-> "Directory", lock |-> "open"]}
    \cup {[type |-> "File", lock |-> l] : l \in Locks}

Buffers ==
  {[openable |-> FALSE, files |-> <<>>]}
    \cup {[openable |-> TRUE,
           files |-> [i \in 1..Len(sh) |-> MemberAt(i, sh[i].type, sh[i].lock)]]
          : sh \in SeqsUpTo(MemberShapes, MaxMembers)}

(***************************************************************************)
(* decompressArchive: the pure parts.                                      *)
(***************************************************************************)
FormatSupported_CaseInsensitive(fileExtension) ==
  fileExtension \in {".zip", ".ZIP"}

FormatSupported(fileExtension) == fileExtension = ".zip"

RECURSIVE SetFromArray(_, _)
\* new Set(array): insertion order, a value already present is not added again
SetFromArray(array, acc) ==
  IF array = <<>> THEN acc
  ELSE SetFromArray(Tail(array),
                    IF Head(array) \in Range(acc) THEN acc
                    ELSE Append(acc, Head(array)))

AllPasswordsToTry_NoDedup(passwords) == <<"">> \o passwords

AllPasswordsToTry(passwords) == SetFromArray(<<"">> \o passwords, <<>>)

NonDirectoryFiles_NoFilter(directory) == directory.files

NonDirectoryFiles(directory) ==
  SelectSeq(directory.files, LAMBDA file : file.type # "Directory")

\* file.buffer(pwd): the bytes, or a rejection
FileBuffer(file, pwd) ==
  IF file.type = "Directory" THEN [ok |-> TRUE, data |-> <<"bytes", 0>>]
  ELSE IF file.lock = "open" \/ file.lock = pwd
       THEN [ok |-> TRUE, data |-> file.data]
       ELSE [ok |-> FALSE, data |-> <<"bytes", 0>>]

CatchHandles_PasswordErrorsOnly(error) == error = "read"

\* catch (error: any): every rejection of the attempt is handled in the loop
CatchHandles(error) == error \in {"open", "read"}


(***************************************************************************)
(* parseLabFile: characters, and the input texts.                          *)
(*                                                                         *)
(* An input is put together from at most MaxLines lines, each a list of    *)
(* fields joined by the separator, the lines joined by a line terminator.  *)
(* No field holds a separator or a terminator, so the list of lines is     *)
(* what the text says.                                                     *)
(***************************************************************************)
SEP == "\\"
LF == "\n"
CR == "\r"
Whitespace == {" ", "\t", LF, CR}

A1 == <<"A", "1">>
A2 == <<"A", "2">>
A3 == <<"A", "3">>
A4 == <<"A", "4">>
A5 == <<"A", "5">>
L1 == <<"L", "1">>
L5 == <<"L", "5">>

LineShapes ==
  { <<A1>>,
    <<A1, <<>>>>,
    <<A1, <<"p">>, <<"x">>>>,
    <<<<"A", "1", "X">>, <<"q">>, <<"y">>>>,
    <<A2, <<"p">>, <<"s">>, <<"f">>, <<"m">>, <<"d">>, <<"e">>>>,
    <<A2, <<"p">>, <<"t">>>>,
    <<A3, <<"p">>, <<"r">>, <<"z">>, <<"c">>>>,
    <<A4, <<"p">>, <<"o">>, <<"d">>, <<>>, <<"y">>>>,
    <<A5, <<"p">>, <<"c">>, <<"h">>, <<"1">>, <<"2">>>>,
    <<L1, <<"p">>, <<"g">>, <<"n">>, <<"r">>, <<"u">>, <<"k">>, <<"v">>>>,
    <<L1>>,
    <<L5, <<"p">>, <<"h">>, <<>>, <<>>, <<>>, <<>>, <<"w">>>>,
    <<L5, <<"q">>, <<"b">>>>,
    <<<<"Z", "Z">>, <<"p">>>>,
    <<<<>>, <<"p">>>>,
    <<<<" ">>>> }

\* the lines of a damaged feed: each tag with no field after it, an unknown
\* tag, an empty tag field, a blank line
MalformedShapes ==
  { <<A1>>, <<A2>>, <<A3>>, <<A4>>, <<A5>>, <<L1>>, <<L5>>,
    <<L1, <<"p">>, <<"g">>>>,
    <<L5, <<"q">>, <<"b">>>>,
    <<<<"Z", "Z">>, <<"p">>>>,
    <<<<>>, <<"p">>>>,
    <<<<" ">>>> }

Terminators == {<<LF>>, <<CR, LF>>}

RECURSIVE Join(_, _)
\* the elements of a list of texts, with glue between neighbours
Join(texts, glue) ==
  IF texts = <<>> THEN <<>>
  ELSE IF Len(texts) = 1 THEN texts[1]
  ELSE texts[1] \o glue \o Join(Tail(texts), glue)

\* the text of a file of these lines; a file written with CR LF ends in one
FileText(srcs, eol) ==
  Join([i \in 1..Len(srcs) |-> Join(srcs[i], <<SEP>>)], eol)
    \o (IF eol = <<CR, LF>> /\ srcs # <<>> THEN eol ELSE <<>>)

(***************************************************************************)
(* parseLabFile: the pure parts.                                           *)
(***************************************************************************)
RECURSIVE SplitLinesFrom(_, _, _, _)
\* fileContent.split(/\r?\n/)
SplitLinesFrom(text, i, cur, acc) ==
  IF i > Len(text) THEN Append(acc, cur)
  ELSE IF text[i] = LF
       THEN SplitLinesFrom(text, i + 1, <<>>, Append(acc, cur))
  ELSE IF text[i] = CR /\ i < Len(text) /\ text[i + 1] = LF
       THEN SplitLinesFrom(text, i + 2, <<>>, Append(acc, cur))
  ELSE SplitLinesFrom(text, i + 1, Append(cur, text[i]), acc)

RECURSIVE SplitOnLineFeedFrom(_, _, _, _)
SplitOnLineFeedFrom(text, i, cur, acc) ==
  IF i > Len(text) THEN Append(acc, cur)
  ELSE IF text[i] = LF
       THEN SplitOnLineFeedFrom(text, i + 1, <<>>, Append(acc, cur))
  ELSE SplitOnLineFeedFrom(text, i + 1, Append(cur, text[i]), acc)

SplitLines_OnLineFeedOnly(text) == SplitOnLineFeedFrom(text, 1, <<>>, <<>>)

SplitLines(text) == SplitLinesFrom(text, 1, <<>>, <<>>)

\* line.trim() !== ''
NotBlank(line) == \E i \in 1..Len(line) : line[i] \notin Whitespace

NonEmptyLines(text) == SelectSeq(SplitLines(text), NotBlank)

RECURSIVE SplitFieldsFrom(_, _, _, _)
\* line.split('\\')
SplitFieldsFrom(line, i, cur, acc) ==
  IF i > Len(line) THEN Append(acc, cur)
  ELSE IF line[i] = SEP
       THEN SplitFieldsFrom(line, i + 1, <<>>, Append(acc, cur))
  ELSE SplitFieldsFrom(line, i + 1, Append(cur, line[i]), acc)

SplitFields(line) == SplitFieldsFrom(line, 1, <<>>, <<>>)

\* parts[k], k counted from 0 as in the source
Part(parts, k) == IF k + 1 <= Len(parts) THEN parts[k + 1] ELSE UNDEFINED

\* value || null
OrNull(value) == IF value = UNDEFINED \/ value = <<>> THEN NULL ELSE value

StartsWithA1_Exact(recordType) == recordType = A1

\* recordType.startsWith('A1')
StartsWithA1(recordType) == IsPrefix(A1, recordType)

\* obj.key = value
SetKey(obj, key, value) ==
  [k \in DOMAIN obj \cup {key} |-> IF k = key THEN value ELSE obj[k]]

EmptyObject == [k \in {} |-> UNDEFINED]

\* Object.keys(currentAdmin).length > 0 || currentResults.length > 0
BlockNonEmpty_ResultsOnly(admin, results) == Len(results) > 0

BlockNonEmpty_Unchecked(admin, results) == TRUE

BlockNonEmpty(admin, results) ==
  Cardinality(DOMAIN admin) > 0 \/ Len(results) > 0

\* the assignments of the A1 branch on a fresh record
OpenAdmin(parts) ==
  SetKey(SetKey(EmptyObject, "ident_protocol", Part(parts, 1)),
         "lab_identification", Part(parts, 2))

\* a key is kept when the line has no field for it
KeepIfAbsent(obj, key, value) ==
  IF value = UNDEFINED /\ key \in DOMAIN obj THEN obj ELSE SetKey(obj, key, value)

ReadA2_Merging(admin, parts) ==
  KeepIfAbsent(KeepIfAbsent(KeepIfAbsent(KeepIfAbsent(
    SetKey(admin, "surname", Part(parts, 2)),
      "firstname", Part(parts, 3)),
      "sex", Part(parts, 4)),
      "date_of_birth", Part(parts, 5)),
      "external_identifier", Part(parts, 6))

\* case 'A2'
ReadA2(admin, parts) ==
  SetKey(SetKey(SetKey(SetKey(SetKey(admin,
    "surname", Part(parts, 2)),
    "firstname", Part(parts, 3)),
    "sex", Part(parts, 4)),
    "date_of_birth", Part(parts, 5)),
    "external_identifier", OrNull(Part(parts, 6)))

\* case 'A3'
ReadA3(admin, parts) ==
  SetKey(SetKey(SetKey(admin,
    "street_number", Part(parts, 2)),
    "postal_code", Part(parts, 3)),
    "city", Part(parts, 4))

\* case 'A4'
ReadA4(admin, parts) ==
  SetKey(SetKey(SetKey(SetKey(admin,
    "prescribing_doctor", Part(parts, 2)),
    "date_request", Part(parts, 3)),
    "empty_field", OrNull(Part(parts, 4))),
    "protocol_type", Part(parts, 5))

\* case 'A5'
ReadA5(admin, parts) ==
  SetKey(SetKey(SetKey(SetKey(admin,
    "cover", Part(parts, 2)),
    "holder", Part(parts, 3)),
    "cod_tit1", Part(parts, 4)),
    "cod_tit2", Part(parts, 5))

ResultL1_ResultOneEarly(parts) ==
  [type |-> 1,
   ident_protocol |-> Part(parts, 1),
   analytical_code |-> Part(parts, 2),
   analytical_name |-> Part(parts, 3),
   reference_value |-> Part(parts, 4),
   unit |-> Part(parts, 5),
   code |-> Part(parts, 6),
   result |-> Part(parts, 6)]

\* the record of case 'L1'
ResultL1(parts) ==
  [type |-> 1,
   ident_protocol |-> Part(parts, 1),
   analytical_code |-> Part(parts, 2),
   analytical_name |-> Part(parts, 3),
   reference_value |-> Part(parts, 4),
   unit |-> Part(parts, 5),
   code |-> Part(parts, 6),
   result |-> Part(parts, 7)]

\* the record of case 'L5'
ResultL5(parts) ==
  [type |-> 5,
   ident_protocol |-> Part(parts, 1),
   analytical_code |-> Part(parts, 2),
   analytical_name |-> <<>>,
   reference_value |-> <<>>,
   unit |-> <<>>,
   code |-> <<>>,
   result |-> Part(parts, 6)]

PushResult_AtFront(results, record) == <<record>> \o results

\* currentResults.push(record)
PushResult(results, record) == Append(results, record)

EmitBlock_Replacing(blocks, admin, results) ==
  IF ~BlockNonEmpty(admin, results) THEN blocks
  ELSE IF blocks = <<>>
       THEN <<[administrative |-> admin, results |-> results]>>
  ELSE [blocks EXCEPT ![Len(blocks)] = [administrative |-> admin, results |-> results]]

\* patientBlocks.push({administrative, results}) when the block is non-empty
EmitBlock(blocks, admin, results) ==
  IF BlockNonEmpty(admin, results)
  THEN Append(blocks, [administrative |-> admin, results |-> results])
  ELSE blocks

(***************************************************************************)
(* State.                                                                  *)
(*                                                                         *)
(* decompressArchive: the arguments, the locals, the position in the body, *)
(* what the call handed back, and a record of what it did (the passwords   *)
(* its loop took up, the Open.buffer calls, the entries read under the     *)
(* password in hand, the errors that reached the caller).                  *)
(***************************************************************************)
VARIABLES
  buffer, fileExtension, passwords,
  allPasswordsToTry, pwdIdx, files, fileIdx, decompressedFiles, success,
  pc, returned, thrown,
  attempted, opens, attemptEntries, throwCount

archiveVars ==
  <<buffer, fileExtension, passwords,
    allPasswordsToTry, pwdIdx, files, fileIdx, decompressedFiles, success,
    pc, returned, thrown,
    attempted, opens, attemptEntries, throwCount>>

(***************************************************************************)
(* parseLabFile: the argument (and the lines it was put together from),    *)
(* the locals, the position in the body, the value returned and the        *)
(* warnings written to the console.                                        *)
(***************************************************************************)
VARIABLES
  srcLines, fileContent,
  lines, lineIdx, parts, patientBlocks, currentAdmin, currentResults,
  currentProtocolId, ppc, parsed, warnings

\* a caller of parseLabFile: the inputs it has still to pass, and the calls
\* that have returned (the lines of the input, its text, the list returned)
VARIABLES queue, callLog

\* a caller of decompressArchive that has two calls under way: the locals of
\* the call that is not running, kept while it waits at an await
VARIABLE suspended

\* the HTTP handlers of the controllers: the uploadLabFile request under
\* way, the tables the handlers write, and the createOrderPreview requests
VARIABLES upload, store, requests

serverVars == <<upload, store, requests>>

callVars == <<queue, callLog, suspended, serverVars>>

parseVars ==
  <<srcLines, fileContent,
    lines, lineIdx, parts, patientBlocks, currentAdmin, currentResults,
    currentProtocolId, ppc, parsed, warnings, callVars>>

vars == <<archiveVars, parseVars>>

\* the locals of a decompressArchive call that was never made
IdleLocals ==
  [buffer |-> [openable |-> FALSE, files |-> <<>>], fileExtension |-> ".zip",
   passwords |-> <<>>, allPasswordsToTry |-> <<>>, pwdIdx |-> 0,
   files |-> <<>>, fileIdx |-> 0, decompressedFiles |-> <<>>,
   success |-> FALSE, pc |-> "idle", returned |-> <<>>, thrown |-> "none",
   attempted |-> <<>>, opens |-> 0, attemptEntries |-> <<>>, throwCount |-> 0]

\* no uploadLabFile request was received
IdleUpload ==
  [pc |-> "idle", file |-> <<>>, archive |-> <<>>, decompressed |-> FALSE,
   decompressedFiles |-> <<>>, fileIdx |-> 0, storageUrl |-> <<>>,
   parsedBlocks |-> <<>>, blockIdx |-> 0, administrative_id |-> 0,
   processedRecords |-> <<>>, errors |-> <<>>, skippedFiles |-> <<>>,
   parsedLog |-> <<>>, storedLog |-> <<>>, status |-> 0, body |-> <<>>]

\* the tables; uniquePeriod says whether the orderpreview table refuses a
\* second row of the same year, month and week (its schema is not in the
\* repository)
EmptyStore ==
  [administrative |-> <<>>, result |-> <<>>, orderpreview |-> <<>>,
   uniquePeriod |-> FALSE]

ServerIdle ==
  /\ upload = IdleUpload
  /\ store = EmptyStore
  /\ requests = <<>>

\* no parseLabFile call is under way
ParseIdle ==
  /\ suspended = IdleLocals
  /\ ServerIdle
  /\ srcLines = <<>>
  /\ fileContent = <<>>
  /\ lines = <<>>
  /\ lineIdx = 0
  /\ parts = <<>>
  /\ patientBlocks = <<>>
  /\ currentAdmin = <<>>
  /\ currentResults = <<>>
  /\ currentProtocolId = NULL
  /\ ppc = "idle"
  /\ parsed = <<>>
  /\ warnings = <<>>
  /\ queue = <<>>
  /\ callLog = <<>>

pwd == allPasswordsToTry[pwdIdx]

ArchiveInit ==
  /\ buffer \in Buffers
  /\ fileExtension \in Extensions
  /\ passwords \in SeqsUpTo(PasswordValues, MaxPasswords)
  /\ allPasswordsToTry = <<>>
  /\ pwdIdx = 0
  /\ files = <<>>
  /\ fileIdx = 0
  /\ decompressedFiles = <<>>
  /\ success = FALSE
  /\ pc = "entry"
  /\ returned = <<>>
  /\ thrown = "none"
  /\ attempted = <<>>
  /\ opens = 0
  /\ attemptEntries = <<>>
  /\ throwCount = 0
  /\ ParseIdle

\* if (fileExtension !== '.zip') throw new Error('Formato de archivo no soportado...')
RejectFormat ==
  /\ pc = "entry"
  /\ ~FormatSupported(fileExtension)
  /\ pc' = "thrown"
  /\ thrown' = "unsupported"
  /\ throwCount' = throwCount + 1
  /\ UNCHANGED <<buffer, fileExtension, passwords, allPasswordsToTry, pwdIdx,
                 files, fileIdx, decompressedFiles, success, returned,
                 attempted, opens, attemptEntries>>
  /\ UNCHANGED parseVars

\* the locals of lines 181-186, and the loop positioned on its first candidate
BeginAttempts ==
  /\ pc = "entry"
  /\ FormatSupported(fileExtension)
  /\ decompressedFiles' = <<>>
  /\ success' = FALSE
  /\ allPasswordsToTry' = AllPasswordsToTry(passwords)
  /\ pwdIdx' = 1
  /\ pc' = "for"
  /\ UNCHANGED <<buffer, fileExtension, passwords, files, fileIdx, returned,
                 thrown, attempted, opens, attemptEntries, throwCount>>
  /\ UNCHANGED parseVars

\* for (const pwd of allPasswordsToTry) { try { await unzipper.Open.buffer(buffer)
TryPassword ==
  /\ pc = "for"
  /\ pwdIdx <= Len(allPasswordsToTry)
  /\ attempted' = Append(attempted, pwd)
  /\ attemptEntries' = <<>>
  /\ pc' = "open"
  /\ UNCHANGED <<buffer, fileExtension, passwords, allPasswordsToTry, pwdIdx,
                 files, fileIdx, decompressedFiles, success, returned, thrown,
                 opens, throwCount>>
  /\ UNCHANGED parseVars

OpenResolved_DirectoryKept ==
  /\ pc = "open"
  /\ buffer.openable
  /\ opens' = IF opens = 0 THEN 1 ELSE opens
  /\ files' = NonDirectoryFiles(buffer)
  /\ fileIdx' = 1
  /\ pc' = "read"
  /\ UNCHANGED <<buffer, fileExtension, passwords, allPasswordsToTry, pwdIdx,
                 decompressedFiles, success, returned, thrown, attempted,
                 attemptEntries, throwCount>>
  /\ UNCHANGED parseVars

\* Open.buffer resolved: directory.files.filter(...), the inner loop starts
OpenResolved ==
  /\ pc = "open"
  /\ buffer.openable
  /\ opens' = opens + 1
  /\ files' = NonDirectoryFiles(buffer)
  /\ fileIdx' = 1
  /\ pc' = "read"
  /\ UNCHANGED <<buffer, fileExtension, passwords, allPasswordsToTry, pwdIdx,
                 decompressedFiles, success, returned, thrown, attempted,
                 attemptEntries, throwCount>>
  /\ UNCHANGED parseVars

Rejected_SameCandidateAgain(error) ==
  /\ pc' = "for"
  /\ UNCHANGED <<pwdIdx, thrown, throwCount>>

\* what follows a rejection inside the try block: the catch block and the
\* next candidate when the rejection is handled, the caller otherwise
Rejected(error) ==
  IF CatchHandles(error)
  THEN /\ pwdIdx' = pwdIdx + 1
       /\ pc' = "for"
       /\ UNCHANGED <<thrown, throwCount>>
  ELSE /\ pc' = "thrown"
       /\ thrown' = error
       /\ throwCount' = throwCount + 1
       /\ UNCHANGED pwdIdx

\* Open.buffer rejected: the buffer holds no archive
OpenRejected ==
  /\ pc = "open"
  /\ ~buffer.openable
  /\ opens' = opens + 1
  /\ Rejected("open")
  /\ UNCHANGED <<buffer, fileExtension, passwords, allPasswordsToTry, files,
                 fileIdx, decompressedFiles, success, returned, attempted,
                 attemptEntries>>
  /\ UNCHANGED parseVars

\* const fileData = await file.buffer(pwd); decompressedFiles.push({path, data})
ReadEntry ==
  /\ pc = "read"
  /\ fileIdx <= Len(files)
  /\ FileBuffer(files[fileIdx], pwd).ok
  /\ LET entry == [path |-> files[fileIdx].path,
                   data |-> FileBuffer(files[fileIdx], pwd).data]
     IN /\ decompressedFiles' = Append(decompressedFiles, entry)
        /\ attemptEntries' = Append(attemptEntries, entry)
  /\ fileIdx' = fileIdx + 1
  /\ UNCHANGED <<buffer, fileExtension, passwords, allPasswordsToTry, pwdIdx,
                 files, success, pc, returned, thrown, attempted, opens,
                 throwCount>>
  /\ UNCHANGED parseVars

\* file.buffer(pwd) rejected: control leaves the try block for the catch block
ReadRejected ==
  /\ pc = "read"
  /\ fileIdx <= Len(files)
  /\ ~FileBuffer(files[fileIdx], pwd).ok
  /\ Rejected("read")
  /\ UNCHANGED <<buffer, fileExtension, passwords, allPasswordsToTry, files,
                 fileIdx, decompressedFiles, success, returned, attempted,
                 opens, attemptEntries>>
  /\ UNCHANGED parseVars

\* every entry read: success = true; break
AttemptSucceeded ==
  /\ pc = "read"
  /\ fileIdx > Len(files)
  /\ success' = TRUE
  /\ pc' = "after"
  /\ UNCHANGED <<buffer, fileExtension, passwords, allPasswordsToTry, pwdIdx,
                 files, fileIdx, decompressedFiles, returned, thrown,
                 attempted, opens, attemptEntries, throwCount>>
  /\ UNCHANGED parseVars

\* the candidates are used up
LoopExhausted ==
  /\ pc = "for"
  /\ pwdIdx > Len(allPasswordsToTry)
  /\ pc' = "after"
  /\ UNCHANGED <<buffer, fileExtension, passwords, allPasswordsToTry, pwdIdx,
                 files, fileIdx, decompressedFiles, success, returned, thrown,
                 attempted, opens, attemptEntries, throwCount>>
  /\ UNCHANGED parseVars

\* if (!success) throw new Error('No se pudo descomprimir el archivo. ...')
ThrowAggregate ==
  /\ pc = "after"
  /\ ~success
  /\ pc' = "thrown"
  /\ thrown' = "aggregate"
  /\ throwCount' = throwCount + 1
  /\ UNCHANGED <<buffer, fileExtension, passwords, allPasswordsToTry, pwdIdx,
                 files, fileIdx, decompressedFiles, success, returned,
                 attempted, opens, attemptEntries>>
  /\ UNCHANGED parseVars

\* return decompressedFiles
ReturnFiles ==
  /\ pc = "after"
  /\ success
  /\ pc' = "returned"
  /\ returned' = decompressedFiles
  /\ UNCHANGED <<buffer, fileExtension, passwords, allPasswordsToTry, pwdIdx,
                 files, fileIdx, decompressedFiles, success, thrown,
                 attempted, opens, attemptEntries, throwCount>>
  /\ UNCHANGED parseVars

ArchiveNext ==
  \/ RejectFormat
  \/ BeginAttempts
  \/ TryPassword
  \/ OpenResolved
  \/ OpenRejected
  \/ ReadEntry
  \/ ReadRejected
  \/ AttemptSucceeded
  \/ LoopExhausted
  \/ ThrowAggregate
  \/ ReturnFiles

ArchiveSpec == ArchiveInit /\ [][ArchiveNext]_vars

\* a call that was started is run on: the promises it awaits settle, and the
\* event loop resumes it
ArchiveFairSpec == ArchiveSpec /\ WF_vars(ArchiveNext)

(***************************************************************************)
(* Two decompressArchive calls under way at once.                          *)
(*                                                                         *)
(* The function is async: a call runs until it reaches an await            *)
(* (Open.buffer, file.buffer) and the other call goes on from the await it *)
(* was waiting at.  Each call has its own arguments and locals; the model  *)
(* keeps those of the running call in the variables of decompressArchive   *)
(* and those of the waiting call in suspended.  The two archives hold      *)
(* members of different names.                                             *)
(***************************************************************************)
ArchiveOf(locks) ==
  [openable |-> TRUE,
   files |-> [i \in 1..Len(locks) |-> MemberAt(i, "File", locks[i])]]

\* the calls made: an archive read at the first candidate, one read at the
\* third, one whose first attempt reads an entry and then fails, one that no
\* candidate reads, a buffer that is no archive, an unsupported extension
ConcCalls ==
  { [buffer |-> ArchiveOf(<<"open", "open">>), fileExtension |-> ".zip",
     passwords |-> <<>>],
    [buffer |-> ArchiveOf(<<"a", "a">>), fileExtension |-> ".zip",
     passwords |-> <<"b", "a">>],
    [buffer |-> ArchiveOf(<<"open", "a">>), fileExtension |-> ".zip",
     passwords |-> <<"a">>],
    [buffer |-> ArchiveOf(<<"open", "corrupt">>), fileExtension |-> ".zip",
     passwords |-> <<"a">>],
    [buffer |-> [openable |-> FALSE, files |-> <<>>], fileExtension |-> ".zip",
     passwords |-> <<"a">>],
    [buffer |-> ArchiveOf(<<"open">>), fileExtension |-> ".rar",
     passwords |-> <<>>] }

\* the same call on an archive whose members have other names and bytes
OtherArchive(call) ==
  [call EXCEPT !.buffer.files =
     [i \in DOMAIN call.buffer.files |->
        [call.buffer.files[i] EXCEPT !.path = MemberPath(i + MaxMembers),
                                     !.data = MemberData(i + MaxMembers)]]]

\* the locals of a call that has been made and has not run yet
CallLocals(call) ==
  [IdleLocals EXCEPT !.buffer = call.buffer,
                     !.fileExtension = call.fileExtension,
                     !.passwords = call.passwords,
                     !.pc = "entry"]

\* the arguments and locals of the running call
Locals ==
  [buffer |-> buffer,
   fileExtension |-> fileExtension,
   passwords |-> passwords,
   allPasswordsToTry |-> allPasswordsToTry,
   pwdIdx |-> pwdIdx,
   files |-> files,
   fileIdx |-> fileIdx,
   decompressedFiles |-> decompressedFiles,
   success |-> success,
   pc |-> pc,
   returned |-> returned,
   thrown |-> thrown,
   attempted |-> attempted,
   opens |-> opens,
   attemptEntries |-> attemptEntries,
   throwCount |-> throwCount]

Running(ctx) ==
  /\ buffer = ctx.buffer
  /\ fileExtension = ctx.fileExtension
  /\ passwords = ctx.passwords
  /\ allPasswordsToTry = ctx.allPasswordsToTry
  /\ pwdIdx = ctx.pwdIdx
  /\ files = ctx.files
  /\ fileIdx = ctx.fileIdx
  /\ decompressedFiles = ctx.decompressedFiles
  /\ success = ctx.success
  /\ pc = ctx.pc
  /\ returned = ctx.returned
  /\ thrown = ctx.thrown
  /\ attempted = ctx.attempted
  /\ opens = ctx.opens
  /\ attemptEntries = ctx.attemptEntries
  /\ throwCount = ctx.throwCount

Resumed(ctx) ==
  /\ buffer' = ctx.buffer
  /\ fileExtension' = ctx.fileExtension
  /\ passwords' = ctx.passwords
  /\ allPasswordsToTry' = ctx.allPasswordsToTry
  /\ pwdIdx' = ctx.pwdIdx
  /\ files' = ctx.files
  /\ fileIdx' = ctx.fileIdx
  /\ decompressedFiles' = ctx.decompressedFiles
  /\ success' = ctx.success
  /\ pc' = ctx.pc
  /\ returned' = ctx.returned
  /\ thrown' = ctx.thrown
  /\ attempted' = ctx.attempted
  /\ opens' = ctx.opens
  /\ attemptEntries' = ctx.attemptEntries
  /\ throwCount' = ctx.throwCount

Resume_SharedAccumulator(waiting, running) ==
  [waiting EXCEPT !.decompressedFiles = running.decompressedFiles]

\* what the waiting call finds when it goes on: its own arguments and locals
\* (const decompressedFiles, let success and the loop variables are declared
\* in the function body, one set per call)
Resume(waiting, running) == waiting

ConcInit ==
  /\ \E first \in ConcCalls, second \in ConcCalls :
       /\ Running(CallLocals(first))
       /\ suspended = CallLocals(OtherArchive(second))
  /\ srcLines = <<>>
  /\ fileContent = <<>>
  /\ lines = <<>>
  /\ lineIdx = 0
  /\ parts = <<>>
  /\ patientBlocks = <<>>
  /\ currentAdmin = <<>>
  /\ currentResults = <<>>
  /\ currentProtocolId = NULL
  /\ ppc = "idle"
  /\ parsed = <<>>
  /\ warnings = <<>>
  /\ queue = <<>>
  /\ callLog = <<>>
  /\ ServerIdle

Finished(ctx) == ctx.pc \in {"returned", "thrown"}

\* the running call is not started yet, waits at an await, or is over
AtAwait ==
  \/ pc \in {"entry", "open", "returned", "thrown"}
  \/ pc = "read" /\ fileIdx <= Len(files)

\* the running call waits and the other call goes on
Switch ==
  /\ AtAwait
  /\ ~Finished(suspended)
  /\ suspended' = Locals
  /\ Resumed(Resume(suspended, Locals))
  /\ UNCHANGED <<srcLines, fileContent, lines, lineIdx, parts, patientBlocks,
                 currentAdmin, currentResults, currentProtocolId, ppc, parsed,
                 warnings, queue, callLog, serverVars>>

ConcNext ==
  \/ Switch
  \/ RejectFormat
  \/ BeginAttempts
  \/ TryPassword
  \/ OpenResolved
  \/ OpenRejected
  \/ ReadEntry
  \/ ReadRejected
  \/ AttemptSucceeded
  \/ LoopExhausted
  \/ ThrowAggregate
  \/ ReturnFiles

ConcSpec == ConcInit /\ [][ConcNext]_vars


(***************************************************************************)
(* parseLabFile, one step per line of the loop.                            *)
(***************************************************************************)
ArchiveIdle ==
  /\ buffer = [openable |-> FALSE, files |-> <<>>]
  /\ fileExtension = ".zip"
  /\ passwords = <<>>
  /\ allPasswordsToTry = <<>>
  /\ pwdIdx = 0
  /\ files = <<>>
  /\ fileIdx = 0
  /\ decompressedFiles = <<>>
  /\ success = FALSE
  /\ pc = "idle"
  /\ returned = <<>>
  /\ thrown = "none"
  /\ attempted = <<>>
  /\ opens = 0
  /\ attemptEntries = <<>>
  /\ throwCount = 0

ParseInit ==
  /\ srcLines \in SeqsUpTo(LineShapes, MaxLines)
  /\ \E eol \in Terminators : fileContent = FileText(srcLines, eol)
  /\ lines = <<>>
  /\ lineIdx = 0
  /\ parts = <<>>
  /\ patientBlocks = <<>>
  /\ currentAdmin = <<>>
  /\ currentResults = <<>>
  /\ currentProtocolId = NULL
  /\ ppc = "entry"
  /\ parsed = <<>>
  /\ warnings = <<>>
  /\ queue = <<>>
  /\ callLog = <<>>
  /\ suspended = IdleLocals
  /\ ServerIdle
  /\ ArchiveIdle

\* parseLabFile called on a damaged feed
MalformedInit ==
  /\ srcLines \in SeqsUpTo(MalformedShapes, MaxLines)
  /\ \E eol \in Terminators : fileContent = FileText(srcLines, eol)
  /\ lines = <<>>
  /\ lineIdx = 0
  /\ parts = <<>>
  /\ patientBlocks = <<>>
  /\ currentAdmin = <<>>
  /\ currentResults = <<>>
  /\ currentProtocolId = NULL
  /\ ppc = "entry"
  /\ parsed = <<>>
  /\ warnings = <<>>
  /\ queue = <<>>
  /\ callLog = <<>>
  /\ suspended = IdleLocals
  /\ ServerIdle
  /\ ArchiveIdle

line == lines[lineIdx]

recordType == parts[1]

\* the loop takes up line i: const parts = line.split('\\')
TakeLine(ls, i) ==
  /\ lineIdx' = i
  /\ parts' = IF i <= Len(ls) THEN SplitFields(ls[i]) ELSE <<>>

AtLine == ppc = "for" /\ lineIdx <= Len(lines)

InBlock_NoContextCheck == AtLine /\ recordType # <<>>

\* the line belongs to a block: it got past the branches of lines 59-81
InBlock == AtLine /\ recordType # <<>> /\ currentProtocolId # NULL

SplitInput_KeepsAccumulator ==
  /\ ppc = "entry"
  /\ lines' = NonEmptyLines(fileContent)
  /\ TakeLine(lines', 1)
  /\ ppc' = "for"
  /\ UNCHANGED <<srcLines, fileContent, patientBlocks, currentAdmin,
                 currentResults, currentProtocolId, parsed, warnings>>
  /\ UNCHANGED archiveVars
  /\ UNCHANGED callVars

\* lines 49-53: the lines of the text, and the empty accumulator
SplitInput ==
  /\ ppc = "entry"
  /\ lines' = NonEmptyLines(fileContent)
  /\ patientBlocks' = <<>>
  /\ currentAdmin' = EmptyObject
  /\ currentResults' = <<>>
  /\ currentProtocolId' = NULL
  /\ TakeLine(lines', 1)
  /\ ppc' = "for"
  /\ UNCHANGED <<srcLines, fileContent, parsed, warnings>>
  /\ UNCHANGED archiveVars
  /\ UNCHANGED callVars

\* if (!recordType) continue
SkipEmptyTag ==
  /\ AtLine
  /\ recordType = <<>>
  /\ TakeLine(lines, lineIdx + 1)
  /\ UNCHANGED <<srcLines, fileContent, lines, patientBlocks, currentAdmin,
                 currentResults, currentProtocolId, ppc, parsed, warnings>>
  /\ UNCHANGED archiveVars
  /\ UNCHANGED callVars

OpenBlock_OnOldRecord ==
  /\ AtLine
  /\ recordType # <<>>
  /\ StartsWithA1(recordType)
  /\ patientBlocks' = EmitBlock(patientBlocks, currentAdmin, currentResults)
  /\ currentResults' = <<>>
  /\ currentProtocolId' = Part(parts, 1)
  /\ currentAdmin' = SetKey(SetKey(currentAdmin, "ident_protocol", Part(parts, 1)),
                            "lab_identification", Part(parts, 2))
  /\ warnings' = Append(warnings, [kind |-> "unknown", line |-> line])
  /\ TakeLine(lines, lineIdx + 1)
  /\ UNCHANGED <<srcLines, fileContent, lines, ppc, parsed>>
  /\ UNCHANGED archiveVars
  /\ UNCHANGED callVars

\* if (recordType.startsWith('A1')) { ... }, then the switch, whose default
\* branch is the one a block-opening tag reaches
OpenBlock ==
  /\ AtLine
  /\ recordType # <<>>
  /\ StartsWithA1(recordType)
  /\ patientBlocks' = EmitBlock(patientBlocks, currentAdmin, currentResults)
  /\ currentResults' = <<>>
  /\ currentProtocolId' = Part(parts, 1)
  /\ currentAdmin' = OpenAdmin(parts)
  /\ warnings' = Append(warnings, [kind |-> "unknown", line |-> line])
  /\ TakeLine(lines, lineIdx + 1)
  /\ UNCHANGED <<srcLines, fileContent, lines, ppc, parsed>>
  /\ UNCHANGED archiveVars
  /\ UNCHANGED callVars

\* else if (currentProtocolId === null) { console.warn(...); continue; }
SkipBeforeFirstBlock ==
  /\ AtLine
  /\ recordType # <<>>
  /\ ~StartsWithA1(recordType)
  /\ currentProtocolId = NULL
  /\ warnings' = Append(warnings, [kind |-> "beforeA1", line |-> line])
  /\ TakeLine(lines, lineIdx + 1)
  /\ UNCHANGED <<srcLines, fileContent, lines, patientBlocks, currentAdmin,
                 currentResults, currentProtocolId, ppc, parsed>>
  /\ UNCHANGED archiveVars
  /\ UNCHANGED callVars

\* an administrative case of the switch
AdminLine(tag, admin) ==
  /\ InBlock
  /\ recordType = tag
  /\ currentAdmin' = admin
  /\ TakeLine(lines, lineIdx + 1)
  /\ UNCHANGED <<srcLines, fileContent, lines, patientBlocks, currentResults,
                 currentProtocolId, ppc, parsed, warnings>>
  /\ UNCHANGED archiveVars
  /\ UNCHANGED callVars

LineA2 == AdminLine(A2, ReadA2(currentAdmin, parts))

LineA3 == AdminLine(A3, ReadA3(currentAdmin, parts))

LineA4 == AdminLine(A4, ReadA4(currentAdmin, parts))

LineA5 == AdminLine(A5, ReadA5(currentAdmin, parts))

ResultLine_MatchingIdOnly(tag, record) ==
  /\ InBlock
  /\ recordType = tag
  /\ currentResults' = IF record.ident_protocol = currentProtocolId
                        THEN PushResult(currentResults, record)
                        ELSE currentResults
  /\ TakeLine(lines, lineIdx + 1)
  /\ UNCHANGED <<srcLines, fileContent, lines, patientBlocks, currentAdmin,
                 currentProtocolId, ppc, parsed, warnings>>
  /\ UNCHANGED archiveVars
  /\ UNCHANGED callVars

ResultLine_FullLinesOnly(tag, record) ==
  /\ InBlock
  /\ recordType = tag
  /\ currentResults' = IF Len(parts) >= 8
                        THEN PushResult(currentResults, record)
                        ELSE currentResults
  /\ TakeLine(lines, lineIdx + 1)
  /\ UNCHANGED <<srcLines, fileContent, lines, patientBlocks, currentAdmin,
                 currentProtocolId, ppc, parsed, warnings>>
  /\ UNCHANGED archiveVars
  /\ UNCHANGED callVars

\* a result case of the switch
ResultLine(tag, record) ==
  /\ InBlock
  /\ recordType = tag
  /\ currentResults' = PushResult(currentResults, record)
  /\ TakeLine(lines, lineIdx + 1)
  /\ UNCHANGED <<srcLines, fileContent, lines, patientBlocks, currentAdmin,
                 currentProtocolId, ppc, parsed, warnings>>
  /\ UNCHANGED archiveVars
  /\ UNCHANGED callVars

LineL1 == ResultLine(L1, ResultL1(parts))

LineL5 == ResultLine(L5, ResultL5(parts))

UnknownLine_LeavesBlock ==
  /\ InBlock
  /\ ~StartsWithA1(recordType)
  /\ recordType \notin {A2, A3, A4, A5, L1, L5}
  /\ warnings' = Append(warnings, [kind |-> "unknown", line |-> line])
  /\ currentProtocolId' = NULL
  /\ TakeLine(lines, lineIdx + 1)
  /\ UNCHANGED <<srcLines, fileContent, lines, patientBlocks, currentAdmin,
                 currentResults, ppc, parsed>>
  /\ UNCHANGED archiveVars
  /\ UNCHANGED callVars

\* default: console.warn(...)
UnknownLine ==
  /\ InBlock
  /\ ~StartsWithA1(recordType)
  /\ recordType \notin {A2, A3, A4, A5, L1, L5}
  /\ warnings' = Append(warnings, [kind |-> "unknown", line |-> line])
  /\ TakeLine(lines, lineIdx + 1)
  /\ UNCHANGED <<srcLines, fileContent, lines, patientBlocks, currentAdmin,
                 currentResults, currentProtocolId, ppc, parsed>>
  /\ UNCHANGED archiveVars
  /\ UNCHANGED callVars

\* lines 148-153: the last block, and the return
FinishParse ==
  /\ ppc = "for"
  /\ lineIdx > Len(lines)
  /\ patientBlocks' = EmitBlock(patientBlocks, currentAdmin, currentResults)
  /\ parsed' = patientBlocks'
  /\ ppc' = "done"
  /\ UNCHANGED <<srcLines, fileContent, lines, lineIdx, parts, currentAdmin,
                 currentResults, currentProtocolId, warnings>>
  /\ UNCHANGED archiveVars
  /\ UNCHANGED callVars

ParseNext ==
  \/ SplitInput
  \/ SkipEmptyTag
  \/ OpenBlock
  \/ SkipBeforeFirstBlock
  \/ LineA2
  \/ LineA3
  \/ LineA4
  \/ LineA5
  \/ LineL1
  \/ LineL5
  \/ UnknownLine
  \/ FinishParse

ParseSpec == ParseInit /\ [][ParseNext]_vars

MalformedSpec == MalformedInit /\ [][ParseNext]_vars

(***************************************************************************)
(* A caller that passes several inputs to parseLabFile, one call after the *)
(* other (the function is synchronous: a call runs to its return).  The    *)
(* later inputs are another text, or the first one written differently.    *)
(***************************************************************************)
BlankLine == <<<<" ">>>>

EmptyLine == <<<<>>>>

\* the list with x put in at position k
InsertAt(seq, k, x) == SubSeq(seq, 1, k - 1) \o <<x>> \o SubSeq(seq, k, Len(seq))

\* the lines with every block-opening tag written as the bare marker
Retagged(srcs) ==
  [i \in 1..Len(srcs) |->
     IF IsPrefix(A1, srcs[i][1]) THEN <<A1>> \o Tail(srcs[i]) ELSE srcs[i]]

OtherInputs ==
  { <<<<A1, <<"p">>, <<"x">>>>, <<A2, <<"p">>, <<"t">>>>, <<L5, <<"q">>, <<"b">>>>>>,
    <<<<<<"Z", "Z">>, <<"p">>>>>> }

Input(srcs, eol) == [src |-> srcs, text |-> FileText(srcs, eol)]

\* what the caller passes after the first input
ReplayPlans(base) ==
  {<<Input(other, <<LF>>), Input(base, <<LF>>)>> : other \in OtherInputs}
    \cup {<<Input(base, <<CR, LF>>)>>}
    \cup {<<Input(InsertAt(base, k, BlankLine), <<LF>>)>> : k \in 1..(Len(base) + 1)}
    \cup {<<Input(InsertAt(base, k, EmptyLine), <<LF>>)>> : k \in 1..(Len(base) + 1)}
    \cup {<<Input(Retagged(base), <<LF>>)>>}

ReplayInit ==
  /\ srcLines \in SeqsUpTo(LineShapes, MaxReplayLines)
  /\ fileContent = FileText(srcLines, <<LF>>)
  /\ queue \in ReplayPlans(srcLines)
  /\ callLog = <<>>
  /\ suspended = IdleLocals
  /\ ServerIdle
  /\ lines = <<>>
  /\ lineIdx = 0
  /\ parts = <<>>
  /\ patientBlocks = <<>>
  /\ currentAdmin = <<>>
  /\ currentResults = <<>>
  /\ currentProtocolId = NULL
  /\ ppc = "entry"
  /\ parsed = <<>>
  /\ warnings = <<>>
  /\ ArchiveIdle

\* the call has returned; the caller notes the result and calls again
NextCall ==
  /\ ppc = "done"
  /\ queue # <<>>
  /\ callLog' = Append(callLog, [src |-> srcLines, text |-> fileContent,
                                 output |-> parsed])
  /\ srcLines' = Head(queue).src
  /\ fileContent' = Head(queue).text
  /\ queue' = Tail(queue)
  /\ ppc' = "entry"
  /\ UNCHANGED <<lines, lineIdx, parts, patientBlocks, currentAdmin,
                 currentResults, currentProtocolId, parsed, warnings, suspended,
                 serverVars>>
  /\ UNCHANGED archiveVars

ReplayNext ==
  \/ NextCall
  \/ SplitInput
  \/ SkipEmptyTag
  \/ OpenBlock
  \/ SkipBeforeFirstBlock
  \/ LineA2
  \/ LineA3
  \/ LineA4
  \/ LineA5
  \/ LineL1
  \/ LineL5
  \/ UnknownLine
  \/ FinishParse

ReplaySpec == ReplayInit /\ [][ReplayNext]_vars

(***************************************************************************)
(* uploadLabFile (src/src/controllers/invoiceController.ts): one request.  *)
(*                                                                         *)
(* The request carries a file name (or no file).  What decompressArchive   *)
(* would return for the file is the list archive: members with a path and  *)
(* the blocks parseLabFile returns for their data.  Every step that asks   *)
(* the database or the storage either gets an answer or an error.  The log *)
(* fields parsedLog and storedLog note the members handed to parseLabFile  *)
(* and to the storage.                                                     *)
(***************************************************************************)
\* the capital letters the file names are written with, and their small ones
UpperLetters == <<"A", "B", "D", "I", "L", "N", "O", "P", "R", "S", "T", "U", "X", "Z">>

LowerLetters == <<"a", "b", "d", "i", "l", "n", "o", "p", "r", "s", "t", "u", "x", "z">>

LowerChar(c) ==
  IF \E i \in 1..Len(UpperLetters) : UpperLetters[i] = c
  THEN LowerLetters[CHOOSE i \in 1..Len(UpperLetters) : UpperLetters[i] = c]
  ELSE c

\* String.prototype.toLowerCase
ToLowerCase(text) == [i \in 1..Len(text) |-> LowerChar(text[i])]

LastIndexOf(text, c) ==
  IF \E i \in 1..Len(text) : text[i] = c
  THEN CHOOSE i \in 1..Len(text) :
         text[i] = c /\ \A j \in (i + 1)..Len(text) : text[j] # c
  ELSE 0

\* path.basename
BaseName(path) == SubSeq(path, LastIndexOf(path, "/") + 1, Len(path))

\* path.extname: from the last dot of the base name, unless it starts it
ExtName(path) ==
  LET base == BaseName(path)
      dot == LastIndexOf(base, ".")
  IN IF dot <= 1 THEN <<>> ELSE SubSeq(base, dot, Len(base))

EndsWith(text, suffix) ==
  /\ Len(suffix) <= Len(text)
  /\ SubSeq(text, Len(text) - Len(suffix) + 1, Len(text)) = suffix

IsLabFile_CaseSensitive(path) == ExtName(path) = <<".", "l", "a", "b">>

\* path.extname(file.path).toLowerCase() !== '.lab'
IsLabFile(path) == ToLowerCase(ExtName(path)) = <<".", "l", "a", "b">>

\* allowedExtensions.includes(path.extname(originalname).toLowerCase())
AllowedUpload(file) == file # UNDEFINED /\ ToLowerCase(ExtName(file)) = <<".", "z", "i", "p">>

UploadFiles == {UNDEFINED, <<"u", ".", "z", "i", "p">>, <<"u", ".", "Z", "I", "P">>, <<"u", ".", "r", "a", "r">>}

UploadMembers ==
  { [path |-> <<"r", ".", "l", "a", "b">>, blocks |-> <<"r1", "r2">>],
    [path |-> <<"d", "/", "s", ".", "L", "A", "B">>, blocks |-> <<"s1">>],
    [path |-> <<"t", ".", "L", "a", "b">>, blocks |-> <<>>],
    [path |-> <<"n", ".", "t", "x", "t">>, blocks |-> <<"n1">>],
    [path |-> <<"l", "a", "b">>, blocks |-> <<"l1">>] }

\* the tables before the request: empty, or holding the active row of an
\* earlier upload (of this ZIP name, or of another ZIP with a member r.lab)
PriorStores ==
  { EmptyStore,
    [EmptyStore EXCEPT !.administrative =
       <<[administrative_id |-> 1, block |-> "o1", member |-> 0,
          file_name |-> <<"l", "a", "b", "_", "f", "i", "l", "e", "s", "/", "0", "_">> \o BaseName(<<"x", "/", "R", ".", "L", "A", "B">>), zip_uploaded |-> <<"u", ".", "z", "i", "p">>]>>],
    [EmptyStore EXCEPT !.administrative =
       <<[administrative_id |-> 1, block |-> "o1", member |-> 0,
          file_name |-> <<"l", "a", "b", "_", "f", "i", "l", "e", "s", "/", "0", "_">> \o BaseName(<<"x", "/", "R", ".", "L", "A", "B">>), zip_uploaded |-> <<"o", ".", "z", "i", "p">>]>>] }

\* .eq('zip_uploaded', zipFileName).eq('is_active', true)
RowsOfZip(rows, zipFileName) ==
  {i \in 1..Len(rows) : rows[i].zip_uploaded = zipFileName}

\* .ilike('file_name', `%${labFileName}`).eq('is_active', true)
RowsOfLabFile(rows, labFileName) ==
  {i \in 1..Len(rows) :
     EndsWith(ToLowerCase(rows[i].file_name), ToLowerCase(labFileName))}

nonServerVars ==
  <<archiveVars, srcLines, fileContent, lines, lineIdx, parts, patientBlocks,
    currentAdmin, currentResults, currentProtocolId, ppc, parsed, warnings,
    queue, callLog, suspended>>

UploadInit ==
  /\ \E file \in UploadFiles, archive \in SeqsUpTo(UploadMembers, MaxUploadMembers) :
       upload = [IdleUpload EXCEPT !.pc = "entry", !.file = file,
                                   !.archive = archive]
  /\ store \in PriorStores
  /\ requests = <<>>
  /\ suspended = IdleLocals
  /\ queue = <<>>
  /\ callLog = <<>>
  /\ srcLines = <<>>
  /\ fileContent = <<>>
  /\ lines = <<>>
  /\ lineIdx = 0
  /\ parts = <<>>
  /\ patientBlocks = <<>>
  /\ currentAdmin = <<>>
  /\ currentResults = <<>>
  /\ currentProtocolId = NULL
  /\ ppc = "idle"
  /\ parsed = <<>>
  /\ warnings = <<>>
  /\ ArchiveIdle

\* res.status(code).json(...), and the handler returns
Responded(u, code, body) ==
  [u EXCEPT !.pc = "done", !.status = code, !.body = body]

\* the member the loop is at, and its base name
file == upload.decompressedFiles[upload.fileIdx]

labFileName == BaseName(file.path)

AtMember == upload.pc = "member" /\ upload.fileIdx <= Len(upload.decompressedFiles)

\* errors.push(...) for the member the loop is at
WithError(u, kind) ==
  [u EXCEPT !.errors = Append(@, [member |-> u.fileIdx, kind |-> kind])]

\* if (!uploadedFile) ...; if (!allowedExtensions.includes(fileExtension)) ...
RejectUpload ==
  /\ upload.pc = "entry"
  /\ ~AllowedUpload(upload.file)
  /\ upload' = Responded(upload, 400, <<>>)
  /\ UNCHANGED <<store, requests>>
  /\ UNCHANGED nonServerVars

\* the check for an active row of the same ZIP name
CheckZipDuplicate ==
  /\ upload.pc = "entry"
  /\ AllowedUpload(upload.file)
  /\ \E zipCheckError \in BOOLEAN :
       upload' =
         IF zipCheckError THEN Responded(upload, 500, <<>>)
         ELSE IF RowsOfZip(store.administrative, upload.file) # {}
              THEN Responded(upload, 409, <<>>)
         ELSE [upload EXCEPT !.pc = "decompress"]
  /\ UNCHANGED <<store, requests>>
  /\ UNCHANGED nonServerVars

\* try { getAllActivePasswords; decompressArchive } catch { 400 }
Decompress ==
  /\ upload.pc = "decompress"
  /\ \E decompressionError \in BOOLEAN :
       upload' =
         IF decompressionError THEN Responded(upload, 400, <<>>)
         ELSE [upload EXCEPT !.pc = "member", !.decompressed = TRUE,
                             !.decompressedFiles = upload.archive,
                             !.fileIdx = 1]
  /\ UNCHANGED <<store, requests>>
  /\ UNCHANGED nonServerVars

\* if (path.extname(file.path).toLowerCase() !== '.lab') continue
SkipMember ==
  /\ AtMember
  /\ ~IsLabFile(file.path)
  /\ upload' = [upload EXCEPT !.fileIdx = @ + 1]
  /\ UNCHANGED <<store, requests>>
  /\ UNCHANGED nonServerVars

\* the check for an active row of the same .lab file
CheckLabDuplicate ==
  /\ AtMember
  /\ IsLabFile(file.path)
  /\ \E labFileCheckError \in BOOLEAN :
       upload' =
         IF labFileCheckError
         THEN [WithError(upload, "check") EXCEPT !.fileIdx = @ + 1]
         ELSE IF RowsOfLabFile(store.administrative, labFileName) # {}
              THEN [upload EXCEPT !.skippedFiles = Append(@, upload.fileIdx),
                                  !.fileIdx = @ + 1]
         ELSE [upload EXCEPT !.pc = "store"]
  /\ UNCHANGED <<store, requests>>
  /\ UNCHANGED nonServerVars

\* try { uploadFileToSupabaseStorage; parseLabFile } catch { errors.push; continue }
StoreAndParse ==
  /\ upload.pc = "store"
  /\ \E parseOrStorageError \in BOOLEAN :
       upload' =
         IF parseOrStorageError
         THEN [WithError(upload, "process") EXCEPT !.fileIdx = @ + 1,
                                                   !.pc = "member"]
         ELSE [upload EXCEPT !.storageUrl = <<"l", "a", "b", "_", "f", "i", "l", "e", "s", "/", "0", "_">> \o labFileName,
                             !.storedLog = Append(@, upload.fileIdx),
                             !.parsedLog = Append(@, upload.fileIdx),
                             !.parsedBlocks = file.blocks,
                             !.blockIdx = 1,
                             !.pc = "block"]
  /\ UNCHANGED <<store, requests>>
  /\ UNCHANGED nonServerVars

AtBlock == upload.pc = "block" /\ upload.blockIdx <= Len(upload.parsedBlocks)

\* supabase.from('administrative').insert(adminToInsert).select(...)
InsertAdministrative ==
  /\ AtBlock
  /\ \E adminInsertError \in BOOLEAN :
       IF adminInsertError
       THEN /\ upload' = [WithError(upload, "insert") EXCEPT !.blockIdx = @ + 1]
            /\ UNCHANGED store
       ELSE LET id == Len(store.administrative) + 1
            IN /\ store' = [store EXCEPT !.administrative =
                              Append(@, [administrative_id |-> id,
                                         block |-> upload.parsedBlocks[upload.blockIdx],
                                         member |-> upload.fileIdx,
                                         file_name |-> upload.storageUrl,
                                         zip_uploaded |-> upload.file])]
               /\ upload' = [upload EXCEPT !.administrative_id = id,
                                           !.pc = "results"]
  /\ UNCHANGED requests
  /\ UNCHANGED nonServerVars

InsertResults_AbortsOnError ==
  /\ upload.pc = "results"
  /\ \E resultInsertError \in BOOLEAN :
       IF resultInsertError
       THEN /\ upload' = Responded(upload, 500, <<>>)
            /\ UNCHANGED store
       ELSE /\ store' = [store EXCEPT !.result =
                           Append(@, [administrative_id |-> upload.administrative_id])]
            /\ upload' = [upload EXCEPT
                            !.processedRecords =
                               Append(@, [administrativeId |-> upload.administrative_id,
                                          member |-> upload.fileIdx]),
                            !.blockIdx = @ + 1,
                            !.pc = "block"]
  /\ UNCHANGED requests
  /\ UNCHANGED nonServerVars

\* supabase.from('result').insert(resultsToInsert); processedRecords.push, or
\* the catch block of the block loop
InsertResults ==
  /\ upload.pc = "results"
  /\ \E resultInsertError \in BOOLEAN :
       IF resultInsertError
       THEN /\ upload' = [WithError(upload, "insert") EXCEPT !.blockIdx = @ + 1,
                                                             !.pc = "block"]
            /\ UNCHANGED store
       ELSE /\ store' = [store EXCEPT !.result =
                           Append(@, [administrative_id |-> upload.administrative_id])]
            /\ upload' = [upload EXCEPT
                            !.processedRecords =
                               Append(@, [administrativeId |-> upload.administrative_id,
                                          member |-> upload.fileIdx]),
                            !.blockIdx = @ + 1,
                            !.pc = "block"]
  /\ UNCHANGED requests
  /\ UNCHANGED nonServerVars

\* the blocks of the member are used up
NextMember ==
  /\ upload.pc = "block"
  /\ upload.blockIdx > Len(upload.parsedBlocks)
  /\ upload' = [upload EXCEPT !.fileIdx = @ + 1, !.pc = "member"]
  /\ UNCHANGED <<store, requests>>
  /\ UNCHANGED nonServerVars

\* res.status(200).json({ processedRecords, skippedFiles, errors, ... })
Respond ==
  /\ upload.pc = "member"
  /\ upload.fileIdx > Len(upload.decompressedFiles)
  /\ upload' = Responded(upload, 200,
                         [processedRecords |-> upload.processedRecords,
                          skippedFiles |-> upload.skippedFiles,
                          errors |-> upload.errors])
  /\ UNCHANGED <<store, requests>>
  /\ UNCHANGED nonServerVars

UploadNext ==
  \/ RejectUpload
  \/ CheckZipDuplicate
  \/ Decompress
  \/ SkipMember
  \/ CheckLabDuplicate
  \/ StoreAndParse
  \/ InsertAdministrative
  \/ InsertResults
  \/ NextMember
  \/ Respond

UploadSpec == UploadInit /\ [][UploadNext]_vars

(***************************************************************************)
(* decompressArchive: what the claims speak of, stated over the inputs.    *)
(***************************************************************************)
\* the members of the archive that are files
FileMembers == {i \in 1..Len(buffer.files) : buffer.files[i].type = "File"}

\* password p decrypts every file member of an archive that opens
Unlocks(p) ==
  /\ buffer.openable
  /\ \A i \in FileMembers :
       buffer.files[i].lock = "open" \/ buffer.files[i].lock = p

\* the k-th smallest element of a set of numbers
Nth(S, k) == CHOOSE i \in S : Cardinality({j \in S : j <= i}) = k

\* the caller's non-empty candidates at their first occurrence, in list order
FirstSeen(s) ==
  LET firsts == {i \in 1..Len(s) :
                   s[i] # "" /\ \A j \in 1..(i - 1) : s[j] # s[i]}
  IN [k \in 1..Cardinality(firsts) |-> s[Nth(firsts, k)]]

CandidateOrder == <<"">> \o FirstSeen(passwords)

\* the entries one pass over the file members yields, in directory order
MemberEntries ==
  [k \in 1..Cardinality(FileMembers) |->
     [path |-> buffer.files[Nth(FileMembers, k)].path,
      data |-> buffer.files[Nth(FileMembers, k)].data]]

Occurrences(seq, path) == Cardinality({j \in 1..Len(seq) : seq[j].path = path})

\* C1: a successful call returns exactly the entries read under the password
\* that succeeded, each file member of the archive once.
C1_ReturnsOnlySuccessfulAttempt ==
  pc = "returned" =>
    /\ returned = attemptEntries
    /\ \A i \in FileMembers : Occurrences(returned, buffer.files[i].path) = 1

\* C2: the list the password loop walks is the empty string followed by the
\* caller's candidates by first occurrence without duplicates; the passwords
\* taken up follow it from its start, and are all of it when the call fails
\* for want of a password.
C2_AttemptOrder ==
  /\ pc \in {"for", "open", "read", "after", "returned"} =>
       allPasswordsToTry = CandidateOrder
  /\ IsPrefix(attempted, CandidateOrder)
  /\ thrown = "aggregate" => attempted = CandidateOrder

C2_Witness ==
  /\ thrown = "aggregate"
  /\ passwords = <<"a", "", "a">>
  /\ attempted = <<"", "a">>

\* C3: candidates are taken up one at a time in order, none after the first
\* one that reads every file member, and the call returns what that one read.
C3_StopsAtFirstSuccessAndReturnsIt ==
  pc = "returned" =>
    /\ IsPrefix(attempted, CandidateOrder)
    /\ Unlocks(attempted[Len(attempted)])
    /\ \A k \in 1..(Len(attempted) - 1) : ~Unlocks(attempted[k])
    /\ returned = MemberEntries

\* C4: a declared extension other than '.zip' ends the call at once with the
\* unsupported-format error; nothing is opened and no password is taken up.
C4_UnsupportedFormatRejectedFirst ==
  fileExtension # ".zip" =>
    /\ pc \in {"entry", "thrown"}
    /\ pc = "thrown" => thrown = "unsupported" /\ throwCount = 1
    /\ opens = 0
    /\ attempted = <<>>

C4_Witness ==
  /\ fileExtension = ".ZIP"
  /\ buffer.openable
  /\ pc = "thrown"
  /\ thrown = "unsupported"

\* C5: when no candidate succeeds (unreadable entries, or a buffer that is no
\* archive) the call throws once, the aggregate error, after every distinct
\* candidate was taken up once; no other error reaches the caller.
C5_SingleAggregateFailure ==
  (fileExtension = ".zip" /\ \A p \in {""} \cup Range(passwords) : ~Unlocks(p)) =>
    /\ pc # "returned"
    /\ throwCount <= 1
    /\ thrown \in {"none", "aggregate"}
    /\ pc = "thrown" =>
         /\ throwCount = 1
         /\ thrown = "aggregate"
         /\ Range(attempted) = {""} \cup Range(passwords)
         /\ Len(attempted) = Cardinality(Range(attempted))

C5_Witness ==
  /\ pc = "thrown"
  /\ ~buffer.openable
  /\ thrown = "aggregate"
  /\ Len(attempted) = 3

\* C6: on success the paths returned are exactly the paths of the file
\* members, each file member with its bytes, and no directory entry.
C6_ReturnsFileMembersOnly ==
  pc = "returned" =>
    /\ {returned[j].path : j \in 1..Len(returned)}
         = {buffer.files[i].path : i \in FileMembers}
    /\ \A i \in FileMembers :
         [path |-> buffer.files[i].path, data |-> buffer.files[i].data]
           \in Range(returned)

C6_Witness ==
  /\ pc = "returned"
  /\ Len(buffer.files) = 2
  /\ buffer.files[1].type = "Directory"
  /\ buffer.files[2].type = "File"
  /\ buffer.files[2].lock = "b"
  /\ Len(returned) = 1


(***************************************************************************)
(* parseLabFile: what the claims speak of, stated over the lines the input *)
(* was put together from.                                                  *)
(***************************************************************************)
SrcTag(src) == src[1]

\* field k after the tag, where the line has one
SrcField(src, k) == IF k + 1 <= Len(src) THEN src[k + 1] ELSE UNDEFINED

\* an optional field: absent and empty are both stored as null
SrcOptional(src, k) ==
  IF k + 1 <= Len(src) /\ src[k + 1] # <<>> THEN src[k + 1] ELSE NULL

OpensBlock(src) ==
  Len(SrcTag(src)) >= 2 /\ SrcTag(src)[1] = "A" /\ SrcTag(src)[2] = "1"

\* the positions of the block-opening lines
Openers == {i \in 1..Len(srcLines) : OpensBlock(srcLines[i])}

\* the positions of the result lines of the i-th block
ResultLinesOf(i) ==
  {j \in 1..Len(srcLines) :
     /\ j > Nth(Openers, i)
     /\ i < Cardinality(Openers) => j < Nth(Openers, i + 1)
     /\ SrcTag(srcLines[j]) \in {L1, L5}}

\* the last line with this tag
LastWith(tag) ==
  CHOOSE j \in 1..Len(srcLines) :
    /\ SrcTag(srcLines[j]) = tag
    /\ \A k \in (j + 1)..Len(srcLines) : SrcTag(srcLines[k]) # tag

Has(tag) == \E j \in 1..Len(srcLines) : SrcTag(srcLines[j]) = tag

\* one block-opening line, followed by A2-A5, L1 and L5 lines only
OneBlockInput ==
  /\ srcLines # <<>>
  /\ OpensBlock(srcLines[1])
  /\ \A j \in 2..Len(srcLines) :
       SrcTag(srcLines[j]) \in {A2, A3, A4, A5, L1, L5}

\* C7: every block returned carries a protocol identifier that is present
\* (neither undefined nor null) and not empty.
C7_ProtocolIdPresent ==
  ppc = "done" =>
    \A b \in 1..Len(parsed) :
      /\ "ident_protocol" \in DOMAIN parsed[b].administrative
      /\ parsed[b].administrative.ident_protocol \notin {UNDEFINED, NULL, <<>>}

\* C8: an input with N >= 1 block-opening lines yields N blocks, the i-th one
\* opened by the i-th block-opening line.
C8_OneBlockPerOpener ==
  (ppc = "done" /\ Openers # {}) =>
    /\ Len(parsed) = Cardinality(Openers)
    /\ \A i \in 1..Len(parsed) :
         LET opener == srcLines[Nth(Openers, i)]
         IN /\ parsed[i].administrative.ident_protocol = SrcField(opener, 1)
            /\ parsed[i].administrative.lab_identification = SrcField(opener, 2)

C8_Witness ==
  /\ ppc = "done"
  /\ Cardinality(Openers) = 3
  /\ Len(parsed) = 3
  /\ parsed[1].administrative.ident_protocol = <<"p">>
  /\ parsed[2].administrative.ident_protocol = <<"q">>
  /\ parsed[3].administrative.ident_protocol = <<>>

\* C9: one block-opening line followed by A2-A5/L1/L5 lines yields one block
\* whose A2, A3, A4 and A5 fields are those of the last line with that tag.
C9_LastLineWins ==
  (ppc = "done" /\ OneBlockInput) =>
    /\ Len(parsed) = 1
    /\ LET admin == parsed[1].administrative
       IN /\ Has(A2) =>
               LET src == srcLines[LastWith(A2)]
               IN /\ admin.surname = SrcField(src, 2)
                  /\ admin.firstname = SrcField(src, 3)
                  /\ admin.sex = SrcField(src, 4)
                  /\ admin.date_of_birth = SrcField(src, 5)
                  /\ admin.external_identifier = SrcOptional(src, 6)
          /\ Has(A3) =>
               LET src == srcLines[LastWith(A3)]
               IN /\ admin.street_number = SrcField(src, 2)
                  /\ admin.postal_code = SrcField(src, 3)
                  /\ admin.city = SrcField(src, 4)
          /\ Has(A4) =>
               LET src == srcLines[LastWith(A4)]
               IN /\ admin.prescribing_doctor = SrcField(src, 2)
                  /\ admin.date_request = SrcField(src, 3)
                  /\ admin.empty_field = SrcOptional(src, 4)
                  /\ admin.protocol_type = SrcField(src, 5)
          /\ Has(A5) =>
               LET src == srcLines[LastWith(A5)]
               IN /\ admin.cover = SrcField(src, 2)
                  /\ admin.holder = SrcField(src, 3)
                  /\ admin.cod_tit1 = SrcField(src, 4)
                  /\ admin.cod_tit2 = SrcField(src, 5)

C9_Witness ==
  /\ ppc = "done"
  /\ OneBlockInput
  /\ Len(srcLines) = 3
  /\ srcLines[2] = <<A2, <<"p">>, <<"s">>, <<"f">>, <<"m">>, <<"d">>, <<"e">>>>
  /\ srcLines[3] = <<A2, <<"p">>, <<"t">>>>
  /\ parsed[1].administrative.surname = <<"t">>
  /\ parsed[1].administrative.firstname = UNDEFINED
  /\ parsed[1].administrative.external_identifier = NULL

\* C10: the results of every block returned are the L1/L5 lines between its
\* opening line and the next one (or the end), one record each, in input order.
C10_ResultsInSourceOrder ==
  ppc = "done" =>
    \A i \in 1..Len(parsed) :
      /\ i <= Cardinality(Openers)
      /\ Len(parsed[i].results) = Cardinality(ResultLinesOf(i))
      /\ \A k \in 1..Len(parsed[i].results) :
           LET src == srcLines[Nth(ResultLinesOf(i), k)]
               record == parsed[i].results[k]
           IN /\ record.type = (IF SrcTag(src) = L1 THEN 1 ELSE 5)
              /\ record.ident_protocol = SrcField(src, 1)
              /\ record.analytical_code = SrcField(src, 2)

C10_Witness ==
  /\ ppc = "done"
  /\ Len(parsed) = 1
  /\ Len(parsed[1].results) = 2
  /\ parsed[1].results[1].type = 5
  /\ parsed[1].results[1].analytical_code = <<"h">>
  /\ parsed[1].results[2].type = 1
  /\ parsed[1].results[2].analytical_code = <<"g">>


\* the line as the loop sees it starts with the block-opening marker
LineOpens(text) == Len(text) >= 2 /\ text[1] = "A" /\ text[2] = "1"

\* the loop is at a line that has no block-opening line before or at it
BeforeFirstBlock ==
  /\ ppc = "for"
  /\ lineIdx <= Len(lines)
  /\ \A j \in 1..lineIdx : ~LineOpens(lines[j])

\* C11: a line before the first block-opening line changes neither the
\* accumulator nor the output, and an input without a block-opening line
\* yields the empty list.
C11_LinesBeforeFirstBlockDropped ==
  /\ [](ppc = "done" /\ Openers = {} => parsed = <<>>)
  /\ [][BeforeFirstBlock =>
          UNCHANGED <<patientBlocks, currentAdmin, currentResults,
                      currentProtocolId>>]_vars

C11_Witness ==
  /\ ppc = "done"
  /\ Len(srcLines) = 3
  /\ SrcTag(srcLines[1]) = L1
  /\ SrcTag(srcLines[2]) = A2
  /\ OpensBlock(srcLines[3])
  /\ Len(parsed) = 1
  /\ parsed[1].results = <<>>
  /\ DOMAIN parsed[1].administrative = {"ident_protocol", "lab_identification"}
  /\ Len(warnings) = 3


(***************************************************************************)
(* parseLabFile called several times: what the claims speak of.            *)
(***************************************************************************)
\* the calls that have returned
Completed ==
  Range(callLog)
    \cup (IF ppc = "done"
          THEN {[src |-> srcLines, text |-> fileContent, output |-> parsed]}
          ELSE {})

\* C12: two calls on the same string return the same list, whatever was
\* parsed in between.
C12_SameInputSameOutput ==
  \A c1, c2 \in Completed : c1.text = c2.text => c1.output = c2.output

C12_Witness ==
  /\ ppc = "done"
  /\ Len(callLog) = 2
  /\ callLog[1].text = fileContent
  /\ callLog[2].text # fileContent
  /\ Len(callLog[2].output) = 1
  /\ Len(parsed) = 2
  /\ callLog[1].output = parsed


(***************************************************************************)
(* parseLabFile: the records of the result lines.                          *)
(***************************************************************************)
\* the k-th result line of the i-th block
ResultLineAt(i, k) == srcLines[Nth(ResultLinesOf(i), k)]

\* C13: an L1 line tag\p\c\n\r\u\k\v inside a block appends the record
\* type 1, ident_protocol p, analytical_code c, analytical_name n,
\* reference_value r, unit u, code k, result v.
C13_L1FieldLayout ==
  ppc = "done" =>
    \A i \in 1..Len(parsed) :
      \A k \in 1..Len(parsed[i].results) :
        LET src == ResultLineAt(i, k)
        IN (SrcTag(src) = L1 /\ Len(src) = 8) =>
             parsed[i].results[k] =
               [type |-> 1,
                ident_protocol |-> src[2],
                analytical_code |-> src[3],
                analytical_name |-> src[4],
                reference_value |-> src[5],
                unit |-> src[6],
                code |-> src[7],
                result |-> src[8]]

C13_Witness ==
  /\ ppc = "done"
  /\ Len(parsed) = 1
  /\ Len(parsed[1].results) = 2
  /\ parsed[1].results[2] =
       [type |-> 1,
        ident_protocol |-> <<"p">>,
        analytical_code |-> <<"g">>,
        analytical_name |-> <<"n">>,
        reference_value |-> <<"r">>,
        unit |-> <<"u">>,
        code |-> <<"k">>,
        result |-> <<"v">>]

\* C14: an L5 line tag\p\c\\\\\v (five separators between c and v) inside a
\* block appends the record type 5, ident_protocol p, analytical_code c,
\* analytical_name, reference_value, unit and code empty, result v.
C14_L5FieldLayout ==
  ppc = "done" =>
    \A i \in 1..Len(parsed) :
      \A k \in 1..Len(parsed[i].results) :
        LET src == ResultLineAt(i, k)
        IN (/\ SrcTag(src) = L5
            /\ Len(src) = 8
            /\ \A f \in 4..7 : src[f] = <<>>) =>
             parsed[i].results[k] =
               [type |-> 5,
                ident_protocol |-> src[2],
                analytical_code |-> src[3],
                analytical_name |-> <<>>,
                reference_value |-> <<>>,
                unit |-> <<>>,
                code |-> <<>>,
                result |-> src[8]]


\* C15: no input stops the call short of its return (every line of the loop
\* has a branch that takes it and moves on to the next line), and an input
\* that is empty or has nothing parseable in it returns the empty list.
C15_AlwaysReturnsAList ==
  /\ [](ppc \in {"entry", "for"} => ENABLED ParseNext)
  /\ [][ppc = "for" => (ppc' = "done" \/ lineIdx' = lineIdx + 1)]_vars
  /\ [](ppc = "done" /\ Openers = {} => parsed = <<>> /\ patientBlocks = <<>>)

C15_Witness ==
  /\ ppc = "done"
  /\ Len(srcLines) = 3
  /\ srcLines[1] = <<<<>>, <<"p">>>>
  /\ srcLines[2] = <<L1>>
  /\ SrcTag(srcLines[3]) = <<"Z", "Z">>
  /\ lineIdx = 4
  /\ Len(warnings) = 2
  /\ parsed = <<>>


\* the lines of the input that do not trim to nothing, and the one the loop is at
Visible(srcs) == SelectSeq(srcs, LAMBDA src : src \notin {BlankLine, EmptyLine})

VisibleSrc == Visible(srcLines)

AtSrc == VisibleSrc[lineIdx]

\* the loop is at a line whose tag starts with the marker and goes on after it
AtVariantOpener ==
  /\ ppc = "for"
  /\ lineIdx <= Len(VisibleSrc)
  /\ OpensBlock(AtSrc)
  /\ SrcTag(AtSrc) # A1

\* C16: a line whose tag starts with A1 without being A1 opens a block as an
\* A1 line does (the accumulated block is emitted, the accumulator starts
\* anew with the protocol id and lab id of fields 1 and 2), and the list
\* returned is the one returned when the tag is written A1.
C16_PrefixTagOpensBlock ==
  /\ [][AtVariantOpener =>
          /\ patientBlocks' =
               IF DOMAIN currentAdmin # {} \/ currentResults # <<>>
               THEN Append(patientBlocks, [administrative |-> currentAdmin,
                                           results |-> currentResults])
               ELSE patientBlocks
          /\ currentResults' = <<>>
          /\ DOMAIN currentAdmin' = {"ident_protocol", "lab_identification"}
          /\ currentAdmin'.ident_protocol = SrcField(AtSrc, 1)
          /\ currentAdmin'.lab_identification = SrcField(AtSrc, 2)
          /\ currentProtocolId' = SrcField(AtSrc, 1)]_vars
  /\ [](\A c1, c2 \in Completed :
          c2.src = Retagged(c1.src) => c2.output = c1.output)

C16_Witness ==
  /\ ppc = "done"
  /\ Len(callLog) = 1
  /\ callLog[1].src = <<<<A1, <<"p">>, <<"x">>>>, <<<<"A", "1", "X">>, <<"q">>, <<"y">>>>>>
  /\ srcLines = <<<<A1, <<"p">>, <<"x">>>>, <<A1, <<"q">>, <<"y">>>>>>
  /\ Len(parsed) = 2
  /\ parsed[2].administrative.ident_protocol = <<"q">>
  /\ parsed = callLog[1].output


\* the values a block list holds: administrative fields and result fields
ValuesOf(blocks) ==
  UNION {{blocks[i].administrative[key] : key \in DOMAIN blocks[i].administrative}
           \cup UNION {{r.ident_protocol, r.analytical_code, r.analytical_name,
                        r.reference_value, r.unit, r.code, r.result}
                       : r \in Range(blocks[i].results)}
         : i \in 1..Len(blocks)}

\* C17: two inputs with the same lines, whatever the line terminator and
\* whatever blank lines stand between them, return the same list, and no
\* value returned holds a carriage return.
C17_TerminatorsAndBlankLines ==
  /\ \A c1, c2 \in Completed :
       Visible(c1.src) = Visible(c2.src) => c1.output = c2.output
  /\ \A c \in Completed : \A value \in ValuesOf(c.output) : CR \notin Range(value)

C17_Witness ==
  /\ ppc = "done"
  /\ Len(callLog) = 1
  /\ callLog[1].src = srcLines
  /\ Len(srcLines) = 2
  /\ CR \notin Range(callLog[1].text)
  /\ CR \in Range(fileContent)
  /\ Len(parsed) = 1
  /\ Len(parsed[1].results) = 1
  /\ parsed = callLog[1].output


\* the call has left the password loop, by return or by throw
LoopLeft == pc \in {"after", "returned", "thrown"} /\ thrown # "unsupported"

\* C19: Open.buffer is called once in a decompressArchive call, however many
\* candidates the loop takes up.
C19_OpensOnce == LoopLeft => opens = 1

\* C19, as the code has it: Open.buffer is called once for each candidate the
\* loop takes up, before that candidate's entry reads.
C19_OpensOncePerCandidate ==
  /\ opens = (IF pc = "open" THEN Len(attempted) - 1 ELSE Len(attempted))
  /\ LoopLeft => opens >= 1
  /\ pc = "read" => opens = pwdIdx

C19_Witness ==
  /\ pc = "returned"
  /\ opens = 3
  /\ Len(attempted) = 3
  /\ returned # <<>>

\* C20: in the loop the output list only grows, by one block at most, and only
\* at a block-opening line or at the end of the input; what it holds stays.
C20_OutputChangesOnlyAtBlockBoundaries ==
  [][ppc = "for" =>
       /\ IsPrefix(patientBlocks, patientBlocks')
       /\ Len(patientBlocks') <= Len(patientBlocks) + 1
       /\ patientBlocks' # patientBlocks =>
            \/ lineIdx > Len(VisibleSrc)
            \/ OpensBlock(AtSrc)]_vars

C20_Witness ==
  /\ ppc = "done"
  /\ Len(srcLines) = 3
  /\ Len(parsed) = 2
  /\ Len(parsed[1].results) = 1
  /\ OpensBlock(srcLines[1])
  /\ OpensBlock(srcLines[3])


\* the entries one attempt adds to the list: those read before the first
\* rejection
RECURSIVE ReadFrom(_, _, _, _)
ReadFrom(fs, i, p, acc) ==
  IF i > Len(fs) THEN [ok |-> TRUE, acc |-> acc]
  ELSE IF FileBuffer(fs[i], p).ok
       THEN ReadFrom(fs, i + 1, p,
                     Append(acc, [path |-> fs[i].path,
                                  data |-> FileBuffer(fs[i], p).data]))
  ELSE [ok |-> FALSE, acc |-> acc]

RECURSIVE TryFrom(_, _, _, _)
TryFrom(buf, candidates, k, acc) ==
  IF k > Len(candidates)
  THEN [pc |-> "thrown", thrown |-> "aggregate", returned |-> <<>>]
  ELSE IF ~buf.openable THEN TryFrom(buf, candidates, k + 1, acc)
  ELSE LET attempt == ReadFrom(NonDirectoryFiles(buf), 1, candidates[k], acc)
       IN IF attempt.ok
          THEN [pc |-> "returned", thrown |-> "none", returned |-> attempt.acc]
          ELSE TryFrom(buf, candidates, k + 1, attempt.acc)

\* how a call with these arguments ends when no other call is under way
RunAlone(buf, ext, pws) ==
  IF ~FormatSupported(ext)
  THEN [pc |-> "thrown", thrown |-> "unsupported", returned |-> <<>>]
  ELSE TryFrom(buf, AllPasswordsToTry(pws), 1, <<>>)

Outcome(ctx) == [pc |-> ctx.pc, thrown |-> ctx.thrown, returned |-> ctx.returned]

OwnEntries(ctx) ==
  {[path |-> ctx.buffer.files[i].path, data |-> ctx.buffer.files[i].data]
   : i \in DOMAIN ctx.buffer.files}

EndsAsAlone(ctx) ==
  Finished(ctx) =>
    /\ Outcome(ctx) = RunAlone(ctx.buffer, ctx.fileExtension, ctx.passwords)
    /\ Range(ctx.returned) \subseteq OwnEntries(ctx)

\* C18: of two calls whose steps interleave at the awaits, each ends as it
\* ends when run alone, and the list it returns holds entries of its own
\* archive only.
C18_CallsDoNotInterfere == EndsAsAlone(Locals) /\ EndsAsAlone(suspended)

C18_Witness ==
  /\ pc = "returned"
  /\ Len(returned) = 3
  /\ suspended.pc = "read"
  /\ suspended.fileIdx = 2
  /\ Len(suspended.attempted) = 3
  /\ suspended.decompressedFiles # <<>>


(***************************************************************************)
(* parseLabFile: the lines of a block, and the line the loop is at.        *)
(***************************************************************************)
\* the positions of the lines of the i-th block that carry this tag
BlockLinesOf(i, tag) ==
  {j \in 1..Len(srcLines) :
     /\ j > Nth(Openers, i)
     /\ i < Cardinality(Openers) => j < Nth(Openers, i + 1)
     /\ SrcTag(srcLines[j]) = tag}

LastOf(S) == CHOOSE j \in S : \A k \in S : k <= j

\* the keys an administrative line of this tag sets, with the field of each
FieldsOf(tag) ==
  IF tag = A2 THEN {<<"surname", 2>>, <<"firstname", 3>>, <<"sex", 4>>,
                    <<"date_of_birth", 5>>}
  ELSE IF tag = A3 THEN {<<"street_number", 2>>, <<"postal_code", 3>>, <<"city", 4>>}
  ELSE IF tag = A4 THEN {<<"prescribing_doctor", 2>>, <<"date_request", 3>>,
                         <<"protocol_type", 5>>}
  ELSE {<<"cover", 2>>, <<"holder", 3>>, <<"cod_tit1", 4>>, <<"cod_tit2", 5>>}

OptionalFieldsOf(tag) ==
  IF tag = A2 THEN {<<"external_identifier", 6>>}
  ELSE IF tag = A4 THEN {<<"empty_field", 4>>}
  ELSE {}

\* the loop is at a line, and a block-opening line came before it
InStartedBlock ==
  /\ ppc = "for"
  /\ lineIdx <= Len(VisibleSrc)
  /\ \E j \in 1..(lineIdx - 1) : OpensBlock(VisibleSrc[j])

Recognized(tag) == tag \in {A2, A3, A4, A5, L1, L5}

\* C21: every block returned holds, beside the two identifiers of its opening
\* line, the fields of the A2-A5 lines of that block and no others, and the
\* results of that block's result lines only.
C21_BlocksStartEmpty ==
  ppc = "done" =>
    \A i \in 1..Len(parsed) :
      LET admin == parsed[i].administrative
      IN /\ \A tag \in {A2, A3, A4, A5} :
              LET own == BlockLinesOf(i, tag)
              IN \A f \in FieldsOf(tag) \cup OptionalFieldsOf(tag) :
                   IF own = {} THEN f[1] \notin DOMAIN admin
                   ELSE /\ f[1] \in DOMAIN admin
                        /\ admin[f[1]] =
                             (IF f \in FieldsOf(tag)
                              THEN SrcField(srcLines[LastOf(own)], f[2])
                              ELSE SrcOptional(srcLines[LastOf(own)], f[2]))
         /\ Len(parsed[i].results) =
              Cardinality(BlockLinesOf(i, L1)) + Cardinality(BlockLinesOf(i, L5))

C21_Witness ==
  /\ ppc = "done"
  /\ Len(srcLines) = 3
  /\ OpensBlock(srcLines[1])
  /\ SrcTag(srcLines[2]) = A2
  /\ OpensBlock(srcLines[3])
  /\ Len(parsed) = 2
  /\ "surname" \in DOMAIN parsed[1].administrative
  /\ DOMAIN parsed[2].administrative = {"ident_protocol", "lab_identification"}

\* C22: a line with an unknown tag inside a started block changes neither the
\* administrative record, the results, the active identifier nor the output,
\* and the loop goes on to the next line.
C22_UnknownLineDropped ==
  [][(/\ InStartedBlock
      /\ SrcTag(AtSrc) # <<>>
      /\ ~OpensBlock(AtSrc)
      /\ ~Recognized(SrcTag(AtSrc)))
     => /\ UNCHANGED <<currentAdmin, currentResults, currentProtocolId,
                       patientBlocks>>
        /\ lineIdx' = lineIdx + 1
        /\ ppc' = "for"]_vars

C22_Witness ==
  /\ ppc = "done"
  /\ Len(srcLines) = 3
  /\ srcLines[1] = <<A1, <<"p">>, <<"x">>>>
  /\ SrcTag(srcLines[2]) = <<"Z", "Z">>
  /\ SrcTag(srcLines[3]) = L1
  /\ Len(parsed) = 1
  /\ Len(parsed[1].results) = 1

\* C23: a result line inside a started block is appended to the results being
\* accumulated whether or not its own identifier is the active one, and the
\* record keeps the line's identifier.
C23_ResultsGoToActiveBlock ==
  /\ [][(InStartedBlock /\ SrcTag(AtSrc) \in {L1, L5})
        => /\ Len(currentResults') = Len(currentResults) + 1
           /\ SubSeq(currentResults', 1, Len(currentResults)) = currentResults
           /\ currentResults'[Len(currentResults')].ident_protocol = SrcField(AtSrc, 1)
           /\ UNCHANGED <<currentAdmin, currentProtocolId, patientBlocks>>]_vars
  /\ [](ppc = "done" =>
          \A i \in 1..Len(parsed) :
            Len(parsed[i].results) =
              Cardinality(BlockLinesOf(i, L1)) + Cardinality(BlockLinesOf(i, L5)))

C23_Witness ==
  /\ ppc = "done"
  /\ Len(parsed) = 1
  /\ parsed[1].administrative.ident_protocol = <<"p">>
  /\ Len(parsed[1].results) = 2
  /\ parsed[1].results[1].ident_protocol = <<"q">>
  /\ parsed[1].results[2].ident_protocol = <<"p">>

\* the line the loop is at is a result line with fewer fields than its layout
AtShortResultLine ==
  /\ InStartedBlock
  /\ SrcTag(AtSrc) \in {L1, L5}
  /\ Len(AtSrc) < 8

\* C24: a result line that is too short, down to the tag alone, adds one
\* record of its type whose fields at absent positions are undefined (empty
\* for the fields an L5 record never reads), and the loop goes on.
C24_ShortResultLineAccepted ==
  [][AtShortResultLine
     => /\ Len(currentResults') = Len(currentResults) + 1
        /\ LET record == currentResults'[Len(currentResults')]
           IN /\ record.type = (IF SrcTag(AtSrc) = L1 THEN 1 ELSE 5)
              /\ record.ident_protocol = SrcField(AtSrc, 1)
              /\ record.analytical_code = SrcField(AtSrc, 2)
              /\ SrcTag(AtSrc) = L1 =>
                   /\ record.analytical_name = SrcField(AtSrc, 3)
                   /\ record.reference_value = SrcField(AtSrc, 4)
                   /\ record.unit = SrcField(AtSrc, 5)
                   /\ record.code = SrcField(AtSrc, 6)
                   /\ record.result = UNDEFINED
              /\ SrcTag(AtSrc) = L5 =>
                   /\ record.analytical_name = <<>>
                   /\ record.result \in {UNDEFINED, <<>>}
        /\ lineIdx' = lineIdx + 1
        /\ ppc' = "for"]_vars

C24_Witness ==
  /\ ppc = "done"
  /\ Len(srcLines) = 3
  /\ srcLines[2] = <<L1>>
  /\ srcLines[3] = <<L5, <<"q">>, <<"b">>>>
  /\ Len(parsed) = 1
  /\ Len(parsed[1].results) = 2
  /\ parsed[1].results[1].analytical_code = UNDEFINED
  /\ parsed[1].results[2].result = UNDEFINED


\* the positions of the lines the parser skips: a tag that is none of the
\* handled ones, or a line before the first block-opening line
SkippedPositions ==
  {j \in 1..Len(VisibleSrc) :
     \/ ~OpensBlock(VisibleSrc[j]) /\ ~Recognized(SrcTag(VisibleSrc[j]))
     \/ \A k \in 1..j : ~OpensBlock(VisibleSrc[k])}

\* C28: a warning is written for the skipped lines and for no others; a
\* block-opening line gets none.
C28_WarningIffSkipped ==
  ppc = "done" =>
    /\ Len(warnings) = Cardinality(SkippedPositions)
    /\ \A k \in 1..Len(warnings) : ~LineOpens(warnings[k].line)


\* C25: the call ends, by return or by throw; the passwords it tried are
\* distinct, and they are the empty one and members of the candidate list.
C25_TerminatesWithDistinctAttempts ==
  /\ <>(pc \in {"returned", "thrown"})
  /\ [](/\ \A i, j \in 1..Len(attempted) : attempted[i] = attempted[j] => i = j
        /\ Range(attempted) \subseteq {""} \cup Range(passwords)
        /\ Len(attempted) <= Cardinality(Range(passwords)) + 1)

C25_Witness ==
  /\ pc = "thrown"
  /\ thrown = "aggregate"
  /\ passwords = <<"a", "", "a">>
  /\ attempted = <<"", "a">>


(***************************************************************************)
(* createOrderPreview (src/src/controllers/orderPreviewController.ts and   *)
(* querieController.ts): requests under way at once.                       *)
(*                                                                         *)
(* A handler runs up to an await and goes on when the database answers;    *)
(* the handlers of other requests run in between.  A request is one step   *)
(* per await: the validation and the select, the insert, and the rest.     *)
(***************************************************************************)
Periods == {<<"y", "m", "w1">>, <<"y", "m", "w2">>}

\* the request bodies: a period, and order details or none
PreviewBodies == {[period |-> p, details |-> d] : p \in Periods, d \in BOOLEAN}

NewRequest(body) ==
  [period |-> body.period, details |-> body.details, pc |-> "entry",
   existingPreview |-> <<>>, foundAtInsert |-> FALSE, inserted |-> FALSE,
   status |-> 0]

\* .from('orderpreview').select('order_id').eq(...).eq(...).eq(...).limit(1)
ExistingPreview(rows, period) == SelectSeq(rows, LAMBDA row : row.period = period)

PreviewInit ==
  /\ requests \in {[i \in 1..MaxRequests |-> NewRequest(bodies[i])] :
                     bodies \in [1..MaxRequests -> PreviewBodies]}
  /\ \E unique \in BOOLEAN, prior \in {<<>>, <<[period |-> <<"y", "m", "w1">>, by |-> 0]>>} :
       store = [EmptyStore EXCEPT !.uniquePeriod = unique, !.orderpreview = prior]
  /\ upload = IdleUpload
  /\ suspended = IdleLocals
  /\ queue = <<>>
  /\ callLog = <<>>
  /\ srcLines = <<>>
  /\ fileContent = <<>>
  /\ lines = <<>>
  /\ lineIdx = 0
  /\ parts = <<>>
  /\ patientBlocks = <<>>
  /\ currentAdmin = <<>>
  /\ currentResults = <<>>
  /\ currentProtocolId = NULL
  /\ ppc = "idle"
  /\ parsed = <<>>
  /\ warnings = <<>>
  /\ ArchiveIdle

Answered(request, code) == [request EXCEPT !.pc = "done", !.status = code]

\* if (!orderDetails || orderDetails.length === 0) return 400
RejectPreview(i) ==
  /\ requests[i].pc = "entry"
  /\ ~requests[i].details
  /\ requests' = [requests EXCEPT ![i] = Answered(@, 400)]
  /\ UNCHANGED <<upload, store>>
  /\ UNCHANGED nonServerVars

\* the select of the existing preview, and the two early returns after it
SelectExisting(i) ==
  /\ requests[i].pc = "entry"
  /\ requests[i].details
  /\ \E existingError \in BOOLEAN :
       LET found == ExistingPreview(store.orderpreview, requests[i].period)
       IN requests' =
            [requests EXCEPT ![i] =
               IF existingError THEN Answered(@, 500)
               ELSE IF Len(found) > 0
                    THEN Answered([@ EXCEPT !.existingPreview = found], 409)
               ELSE [@ EXCEPT !.pc = "insert"]]
  /\ UNCHANGED <<upload, store>>
  /\ UNCHANGED nonServerVars

\* .from('orderpreview').insert({...}).select('order_id')
InsertPreview(i) ==
  /\ requests[i].pc = "insert"
  /\ LET found == Len(ExistingPreview(store.orderpreview, requests[i].period)) > 0
     IN \E orderPreviewError \in BOOLEAN :
          /\ (found /\ store.uniquePeriod) => orderPreviewError
          /\ IF orderPreviewError
             THEN /\ requests' = [requests EXCEPT ![i] =
                                    Answered([@ EXCEPT !.foundAtInsert = found], 500)]
                  /\ UNCHANGED store
             ELSE /\ store' = [store EXCEPT !.orderpreview =
                                 Append(@, [period |-> requests[i].period, by |-> i])]
                  /\ requests' = [requests EXCEPT ![i] =
                                    [@ EXCEPT !.pc = "details", !.inserted = TRUE,
                                              !.foundAtInsert = found]]
  /\ UNCHANGED upload
  /\ UNCHANGED nonServerVars

\* the correlatives, the insert of the details, and the response
InsertDetails(i) ==
  /\ requests[i].pc = "details"
  /\ \E detailError \in BOOLEAN :
       requests' = [requests EXCEPT ![i] =
                      Answered(@, IF detailError THEN 500 ELSE 201)]
  /\ UNCHANGED <<upload, store>>
  /\ UNCHANGED nonServerVars

PreviewNext ==
  \/ \E i \in 1..Len(requests) : RejectPreview(i)
  \/ \E i \in 1..Len(requests) : SelectExisting(i)
  \/ \E i \in 1..Len(requests) : InsertPreview(i)
  \/ \E i \in 1..Len(requests) : InsertDetails(i)

PreviewSpec == PreviewInit /\ [][PreviewNext]_vars

(***************************************************************************)
(* uploadLabFile: the members of the archive, as the request sees them.    *)
(***************************************************************************)
\* the path ends in a dot and the letters l, a, b, small or capital, after a
\* name
EndsInDotLab(path) ==
  /\ Len(path) > 4
  /\ path[Len(path) - 4] # "/"
  /\ path[Len(path) - 3] = "."
  /\ path[Len(path) - 2] \in {"l", "L"}
  /\ path[Len(path) - 1] \in {"a", "A"}
  /\ path[Len(path)] \in {"b", "B"}

LabPositions ==
  {i \in 1..Len(upload.archive) : EndsInDotLab(upload.archive[i].path)}

\* the members an error, a skip or a row of this request names
ErrorsOf(i, kind) ==
  {k \in 1..Len(upload.errors) :
     upload.errors[k].member = i /\ upload.errors[k].kind = kind}

ProcessedOf(i) ==
  {k \in 1..Len(upload.processedRecords) : upload.processedRecords[k].member = i}

Touched ==
  Range(upload.parsedLog) \cup Range(upload.storedLog)
    \cup Range(upload.skippedFiles)
    \cup {upload.errors[k].member : k \in 1..Len(upload.errors)}
    \cup {store.administrative[k].member : k \in 1..Len(store.administrative)}

\* C26: only members with the extension .lab, in whatever case, are passed to
\* parseLabFile, in the order of the list; the others leave no trace; and a
\* request that ends with the success response has taken up every such member.
C26_OnlyLabMembersParsed ==
  /\ Range(upload.parsedLog) \subseteq LabPositions
  /\ \A j, k \in 1..Len(upload.parsedLog) :
       j < k => upload.parsedLog[j] < upload.parsedLog[k]
  /\ Touched \subseteq LabPositions \cup {0}
  /\ upload.status = 200 =>
       \A i \in LabPositions :
         \/ i \in Range(upload.parsedLog)
         \/ i \in Range(upload.skippedFiles)
         \/ ErrorsOf(i, "check") # {}
         \/ ErrorsOf(i, "process") # {}

C26_Witness ==
  /\ upload.status = 200
  /\ Len(upload.archive) = 2
  /\ ~EndsInDotLab(upload.archive[1].path)
  /\ upload.archive[2].path[Len(upload.archive[2].path)] = "B"
  /\ upload.parsedLog = <<2>>
  /\ Len(upload.processedRecords) = 1

\* how many of the four ways a .lab member is dealt with apply to member i
WaysTaken(i) ==
  (IF i \in Range(upload.parsedLog) THEN 1 ELSE 0)
    + (IF i \in Range(upload.skippedFiles) THEN 1 ELSE 0)
    + (IF ErrorsOf(i, "check") # {} THEN 1 ELSE 0)
    + (IF ErrorsOf(i, "process") # {} THEN 1 ELSE 0)

\* C27: a failed decompression ends the request with 400 and nothing
\* processed; after a successful one no step is without a successor, the
\* request ends with 200 and the three lists, every .lab member was dealt
\* with in one way, and every block of a parsed member was inserted or
\* recorded as an error.
C27_FailuresAreContained ==
  /\ [][(upload.pc = "decompress" /\ ~upload'.decompressed)
        => /\ upload'.pc = "done"
           /\ upload'.status = 400
           /\ upload'.parsedLog = <<>>
           /\ upload'.storedLog = <<>>
           /\ upload'.processedRecords = <<>>
           /\ UNCHANGED store]_vars
  /\ [](upload.decompressed /\ upload.pc # "done" => ENABLED UploadNext)
  /\ [](upload.decompressed /\ upload.pc = "done" =>
          /\ upload.status = 200
          /\ upload.body = [processedRecords |-> upload.processedRecords,
                            skippedFiles |-> upload.skippedFiles,
                            errors |-> upload.errors]
          /\ \A i \in LabPositions :
               /\ WaysTaken(i) = 1
               /\ i \in Range(upload.parsedLog) =>
                    Cardinality(ProcessedOf(i)) + Cardinality(ErrorsOf(i, "insert"))
                      = Len(upload.archive[i].blocks))

C27_Witness ==
  /\ upload.pc = "done"
  /\ upload.status = 200
  /\ Len(upload.archive) = 2
  /\ ErrorsOf(1, "process") # {}
  /\ Len(upload.archive[2].blocks) = 2
  /\ Cardinality(ErrorsOf(2, "insert")) = 1
  /\ Cardinality(ProcessedOf(2)) = 1
  /\ upload.processedRecords[1].administrativeId = 2

\* C29: when the request is over, every administrative row it inserted has
\* its result rows.
C29_BlockPersistedWhole ==
  upload.pc = "done" =>
    \A k \in 1..Len(store.administrative) :
      store.administrative[k].member # 0 =>
        \E r \in 1..Len(store.result) :
          store.result[r].administrative_id = store.administrative[k].administrative_id


\* C30: the table never holds two rows of one period, and a request that
\* comes to its insert when the period has a row is answered with 409 and
\* inserts nothing.
C30_OnePreviewPerPeriod ==
  /\ \A j, k \in 1..Len(store.orderpreview) :
       store.orderpreview[j].period = store.orderpreview[k].period => j = k
  /\ \A i \in 1..Len(requests) :
       requests[i].foundAtInsert =>
         requests[i].status = 409 /\ ~requests[i].inserted

====
